---- MODULE Spec2Model ----
(***************************************************************************)
(* Model of the multi-parent multifactorial driver mfeaii_mgp              *)
(* (src/gym_evaluate/mfeaii_mgp.py), of the guarded primitives of          *)
(* src/slgep_lib/function_set.py and of the double pole environments of    *)
(* src/mtsoo/custom_gym/custom_gym/envs.                                   *)
(*                                                                         *)
(* Python indices are 0-based, TLA+ sequences 1-based: population.pop[j]   *)
(* of the code is pop[j+1] here.  The loop variables t and k keep their    *)
(* Python values.  Probabilities (rmp entries, uniform draws) are counted  *)
(* in hundredths.                                                          *)
(***************************************************************************)
EXTENDS Integers, Sequences, FiniteSets, TLC

\* ---------------------------------------------------------------- bounds
MaxK == 2
MaxPopSize == 2
MaxNumPar == 3
MaxT == 2
MaxBetter == 1
\* largest number of parent slots processed in one run (N * T)
MaxWork == 4
\* largest number of step() calls between two reset() calls
MaxSteps == 202
\* largest number of gene positions of a chromosome
MaxD == 2

\* observation lengths an environment's reset() may report
ObsLens == {3, 6}
\* the observation length of the double pole environments
PoleObsLen == 6
\* values learn_rmp may put in the matrix, and uniform draws in [0, 1)
RmpVals == {34, 100}
Draws == {0, 50}

NoSf == -1
NoFit == -1
FitBest == 0
FitWorst == 1

\* ------------------------------------------------------------- variables
VARIABLES
    pc,          \* position of the driver in mfeaii_mgp
    phase,       \* the phase the driver executed last
    envs,        \* envs.envs: observation length of each task's environment
    config,      \* the config dictionary
    no_terminal, \* line 27
    pop,         \* population.pop
    rmp_matrix,  \* line 15 / line 51
    learned_t,   \* generation in which rmp_matrix was last learned
    t,           \* generation index of the for loop (line 44)
    k,           \* start index of the next parent group (line 54)
    loc,         \* locals of the last processed group
    wlog,        \* slots written in this generation's crossover phase
    calls,       \* number of callback invocations
    results,     \* argument of the last callback invocation
    prim,        \* last primitive evaluation of function_set
    env,         \* one environment object of custom_gym
    normal_beta, \* the argument normal_beta (line 9)
    subpops      \* line 50: per task, the gene positions whose standard
                 \* deviation over the task's subpopulation is 0

vars == <<pc, phase, envs, config, no_terminal, pop, rmp_matrix, learned_t,
          t, k, loc, wlog, calls, results, prim, env, normal_beta, subpops>>

\* ------------------------------------------------------- hyper-parameters
K == Len(envs)
\* line 34: the number of gene positions of a chromosome
D == MaxD
N == config.pop_size * K
T == config.num_iter
no_par == config.num_par

Min2(a, b) == IF a < b THEN a ELSE b
Max2(a, b) == IF a > b THEN a ELSE b

RECURSIVE SeqMax(_)
\* np.max of a non-empty list
SeqMax(s) == IF Len(s) = 1 THEN s[1] ELSE Max2(s[1], SeqMax(Tail(s)))

\* ---------------------------------------------------------- chromosomes
\* a chromosome: its skill factor, whether mutate produced it, its cached
\* fitness
Chrom(sf, mut, fit) == [sf |-> sf, mut |-> mut, fit |-> fit]

\* Slgep_pop(..., no_pop=2*N, no_task=K): 2N chromosomes, task ids in [0, K)
NewPopulation(n, ntask) == [j \in 1..n |-> Chrom((j - 1) % ntask, FALSE, NoFit)]

\* the group-local state before any group was processed
NoLoc == [k |-> -1, no_p |-> 0, orig |-> <<>>, parents |-> <<>>,
          max_rmp |-> -1, u |-> -1, same_sf |-> FALSE, branch |-> "none",
          cl |-> <<>>, bl |-> <<>>]

NoPrim == [op |-> "none", a |-> [k |-> "fin", n |-> 0],
           b |-> [k |-> "fin", n |-> 0], r |-> [k |-> "fin", n |-> 0]]

\* steps_beyond_done = None
None == -1
\* 'Episode length is greater than 200' (docstring of both classes)
EpisodeLimit == 200

\* rewards are counted in ten-thousandths; plus: a positive term 0.9 * f2
\* whose value the model does not compute is added
Reward(n, plus) == [n |-> n, plus |-> plus]
One == Reward(10000, FALSE)
Zero == Reward(0, FALSE)

EnvClasses == {"DoublePole710", "DoublePole710v1"}

NoCall == [op |-> "none", reward |-> Zero, done |-> FALSE, after_done |-> FALSE]

\* __init__ of both classes.  state: "none" before the first reset(),
\* otherwise whether the cart position and both pole angles are inside
\* their thresholds ("in") or not ("out").  T: self.T of DoublePole710v1,
\* self.time / self.tau of DoublePole710.  was_done: a step() since the
\* last reset() has returned done = True.  last: the last call and what it
\* returned; after_done is was_done as it stood when the call was made.
NewEnv(cls) ==
    [cls |-> cls, state |-> "none", T |-> 0, steps_beyond_done |-> None,
     was_done |-> FALSE, last |-> NoCall]

\* ------------------------------------------------------------------ Init
Configs == [pop_size : 1..MaxPopSize, num_iter : 0..MaxT, num_par : 1..MaxNumPar,
            callback : {TRUE}]

\* one to MaxK tasks, all on double pole environments
EnvLists == {[i \in 1..n |-> PoleObsLen] : n \in 1..MaxK}

\* tasks whose environments may report different observation lengths
MixedEnvLists == UNION {[1..n -> ObsLens] : n \in 1..MaxK}

\* one generation, parent groups of at most two
SetupConfigs == {c \in Configs : c.num_iter = 1 /\ c.num_par <= 2}

InitWith(E, C) ==
    /\ pc = "setup"
    /\ phase = "none"
    /\ envs \in E
    /\ config \in C
    /\ no_terminal = 0
    /\ pop = <<>>
    /\ rmp_matrix = <<>>
    /\ learned_t = -1
    /\ t = 0
    /\ k = 0
    /\ loc = NoLoc
    /\ wlog = {}
    /\ calls = 0
    /\ results = [gen |-> -1, rmp |-> -1]
    /\ prim = NoPrim
    /\ subpops = <<>>

Bounded(E, C) == Len(E) * C.pop_size * C.num_iter <= MaxWork

Init ==
    /\ InitWith(EnvLists, Configs)
    /\ Bounded(envs, config)
    /\ env = NewEnv("DoublePole710")
    /\ normal_beta = TRUE

\* a run in likelihood-beta mode
InitBeta ==
    /\ InitWith(EnvLists, Configs)
    /\ Bounded(envs, config)
    /\ env = NewEnv("DoublePole710")
    /\ normal_beta = FALSE

InitSetup ==
    /\ InitWith(MixedEnvLists, SetupConfigs)
    /\ Bounded(envs, config)
    /\ env = NewEnv("DoublePole710")
    /\ normal_beta = TRUE

\* ----------------------------------------------------------------- setup
\* variant of NoTerminal: the first task's observation length for all tasks
NoTerminalFirst(e) == e[1]

\* line 27: np.max over the reset() observation lengths of all tasks
NoTerminal(e) == SeqMax(e)

\* lines 11-34: unpack the hyper-parameters and create the population
Setup ==
    /\ pc = "setup"
    /\ no_terminal' = NoTerminal(envs)
    /\ rmp_matrix' = [i \in 0..K-1 |-> [j \in 0..K-1 |-> 0]]
    /\ pop' = NewPopulation(2 * N, K)
    /\ pc' = "evaluate_init"
    /\ phase' = "create"
    /\ UNCHANGED <<envs, config, learned_t, t, k, loc, wlog, calls, results, prim, env,
                   normal_beta, subpops>>

\* ------------------------------------------------------ evaluate and sort
RECURSIVE SubsetsUpTo(_, _)
\* the subsets of S with at most m elements
SubsetsUpTo(S, m) ==
    IF m = 0 \/ S = {} THEN {{}}
    ELSE LET x == CHOOSE y \in S : TRUE
             R == SubsetsUpTo(S \ {x}, m)
             Q == SubsetsUpTo(S \ {x}, m - 1)
         IN R \cup {q \cup {x} : q \in Q}

\* population.evaluate(envs): every chromosome gets the fitness of an episode
\* on its task's environment; G is the set of slots that did better
EvaluatePop(p, G) ==
    [j \in 1..Len(p) |-> [p[j] EXCEPT !.fit = IF j \in G THEN FitBest ELSE FitWorst]]

RECURSIVE SortByFit(_, _)
\* population.sort(): ascending fitness, equal fitness keeps its order
SortByFit(p, v) ==
    IF v > FitWorst THEN <<>>
    ELSE SelectSeq(p, LAMBDA c : c.fit = v) \o SortByFit(p, v + 1)

SortPop(p) == SortByFit(p, FitBest)

\* line 37
EvaluateInit ==
    /\ pc = "evaluate_init"
    /\ \E G \in SubsetsUpTo(1..Len(pop), MaxBetter) : pop' = EvaluatePop(pop, G)
    /\ pc' = "sort_init"
    /\ phase' = "evaluate"
    /\ UNCHANGED <<envs, config, no_terminal, rmp_matrix, learned_t, t, k, loc,
                   wlog, calls, results, prim, env,
                   normal_beta, subpops>>

\* line 40
SortInit ==
    /\ pc = "sort_init"
    /\ pop' = SortPop(pop)
    /\ pc' = "loop"
    /\ phase' = "sort"
    /\ UNCHANGED <<envs, config, no_terminal, rmp_matrix, learned_t, t, k, loc,
                   wlog, calls, results, prim, env,
                   normal_beta, subpops>>

\* ------------------------------------------------------------ generation
\* population.permute(): shuffles the current generation pop[0:N].  The
\* cached fitness is not read again before the next evaluate overwrites it,
\* so the model forgets it here.
Stale(c) == [c EXCEPT !.fit = NoFit]

PermutePop(p, f, n) ==
    [j \in 1..Len(p) |-> IF j <= n THEN Stale(p[f[j]]) ELSE Stale(p[j])]

\* variant of Permute: the rmp matrix is not learned again
PermuteSkipLearn ==
    /\ pc = "loop"
    /\ t < T
    /\ \E f \in Permutations(1..N) : pop' = PermutePop(pop, f, N)
    /\ wlog' = {}
    /\ k' = 0
    /\ pc' = "groups"
    /\ phase' = "permute"
    /\ UNCHANGED <<envs, config, no_terminal, rmp_matrix, learned_t, t, loc,
                   calls, results, prim, env,
                   normal_beta, subpops>>

\* lines 44-47
Permute ==
    /\ pc = "loop"
    /\ t < T
    /\ \E f \in Permutations(1..N) : pop' = PermutePop(pop, f, N)
    /\ wlog' = {}
    /\ pc' = "learn_rmp"
    /\ phase' = "permute"
    /\ UNCHANGED <<envs, config, no_terminal, rmp_matrix, learned_t, t, k, loc,
                   calls, results, prim, env,
                   normal_beta, subpops>>

\* population.learn_rmp(subpops): a symmetric K x K matrix with entries in
\* [0, 1], one value per unordered pair of tasks
TaskPairs == {pr \in (0..K-1) \X (0..K-1) : pr[1] <= pr[2]}

RmpFrom(f) ==
    [i \in 0..K-1 |-> [j \in 0..K-1 |-> f[<<Min2(i, j), Max2(i, j)>>]]]

\* line 50, with lines 66-70: the subpopulations, of which the model keeps
\* where np.std of the genes is 0; the statistics are taken in likelihood
\* mode only
GeneStats ==
    IF normal_beta THEN {[sf \in 0..(K - 1) |-> {}]}
    ELSE [0..(K - 1) -> SUBSET (1..D)]

\* lines 50-51
LearnRmp ==
    /\ pc = "learn_rmp"
    /\ subpops' \in GeneStats
    /\ \E f \in [TaskPairs -> RmpVals] : rmp_matrix' = RmpFrom(f)
    /\ learned_t' = t
    /\ k' = 0
    /\ pc' = "groups"
    /\ phase' = "learn_rmp"
    /\ UNCHANGED <<envs, config, no_terminal, pop, t, loc, wlog, calls, results,
                   prim, env, normal_beta>>

\* ---------------------------------------------------------- parent group
\* a row of bl.  src: the chromosome whose genes entered the row; sub: the
\* task whose subpopulation gave mean and std; one: the positions whose
\* entry is exactly 1.  A row drawn from the normal distribution depends on
\* no chromosome.
BetaRow(src, sub, one) == [src |-> src, sub |-> sub, one |-> one]

\* line 63
BetaNormal(par) ==
    [i \in 1..Len(par) |-> BetaRow(Chrom(NoSf, FALSE, NoFit), NoSf, {})]

\* lines 66-77: row i from parents[i].gene and subpops[parents[i].sf]; an
\* entry stays 1 where std[j] == 0 and is multiplied by norm.pdf elsewhere
BetaLikelihood(par, stats) ==
    [i \in 1..Len(par) |-> BetaRow(par[i], par[i].sf, stats[par[i].sf])]

\* lines 60-77
Beta(par) ==
    IF normal_beta THEN BetaNormal(par) ELSE BetaLikelihood(par, subpops)

\* line 55
GroupSize(kk) == Min2(N - kk, no_par)

\* line 58
ExtractParents(p, kk, n) == [i \in 1..n |-> p[kk + i]]

\* variant of MaxRmp: only the pair {parent 0, parent 1}
MaxRmpFirstPair(m, par) == m[par[1].sf][par[2].sf]

\* lines 82-83, for a group of at least two parents
MaxRmp(m, par) ==
    SeqMax([i \in 1..Len(par)-1 |-> m[par[1].sf][par[i + 1].sf]])

\* lines 87-90
SameSf(par) == \A i \in 1..Len(par)-1 : par[i].sf = par[i + 1].sf

\* population.crossover_mul / crossover_mul_second: as many new children as
\* parents
CrossoverMul(par) == [i \in 1..Len(par) |-> Chrom(NoSf, FALSE, NoFit)]

\* population.mutate: returns a new chromosome
Mutate(c) == [c EXCEPT !.mut = TRUE]

\* population.find_relative(sf): the individuals it may return
Relatives(p, sf) == {p[j] : j \in {i \in 1..N : p[i].sf = sf}}

\* variant of ChildrenOfFirst: the skill factor is not assigned
ChildrenOfFirstNoSf(par, cl) == [i \in 1..Len(cl) |-> Mutate(cl[i])]

\* lines 98-100 and 120-122: mutate, then take parent 0's skill factor
ChildrenOfFirst(par, cl) ==
    [i \in 1..Len(cl) |-> [Mutate(cl[i]) EXCEPT !.sf = par[1].sf]]

\* lines 108-113: mutate, then take the chosen parent's skill factor
ChildrenOfChoice(par, cl, ch) ==
    [i \in 1..Len(cl) |-> [Mutate(cl[i]) EXCEPT !.sf = par[ch[i]].sf]]

\* variant of ReplaceRelatives: range(2, no_p), parent 1 is kept as well
ReplaceRelativesFromTwo(par, rel) ==
    [i \in 1..Len(par) |-> IF i <= 2 THEN par[i] ELSE rel[i]]

\* lines 116-117
ReplaceRelatives(par, rel) ==
    [i \in 1..Len(par) |-> IF i = 1 THEN par[1] ELSE rel[i]]

\* variant of ReplaceSlots: the children overwrite their parents' slots
ReplaceParentSlots(p, kk, cl) ==
    [j \in 1..Len(p) |->
        IF j > kk /\ j <= kk + Len(cl) THEN cl[j - kk] ELSE p[j]]

\* lines 125-126
ReplaceSlots(p, kk, cl) ==
    [j \in 1..Len(p) |->
        IF j > N + kk /\ j <= N + kk + Len(cl) THEN cl[j - N - kk] ELSE p[j]]

WrittenSlots(kk, cl) == {[k |-> kk, slot |-> N + kk + i] : i \in 0..Len(cl)-1}

\* lines 54-83 with a group of one parent: np.max of an empty array raises
GroupRaise ==
    /\ pc = "groups"
    /\ k < N
    /\ GroupSize(k) = 1
    /\ loc' = [NoLoc EXCEPT !.k = k, !.no_p = 1,
                            !.orig = ExtractParents(pop, k, 1),
                            !.parents = ExtractParents(pop, k, 1),
                            !.bl = Beta(ExtractParents(pop, k, 1)),
                            !.branch = "raise"]
    /\ pc' = "raised"
    /\ phase' = "group"
    /\ UNCHANGED <<envs, config, no_terminal, pop, rmp_matrix, learned_t, t, k,
                   wlog, calls, results, prim, env,
                   normal_beta, subpops>>

\* variant of GroupSameTask: without the else clause of the for loop, the
\* replace step of lines 125-126 follows
GroupSameTaskReplace ==
    /\ pc = "groups"
    /\ k < N
    /\ GroupSize(k) > 1
    /\ LET no_p == GroupSize(k)
           parents == ExtractParents(pop, k, no_p)
           cl == ChildrenOfFirst(parents, CrossoverMul(parents))
       IN /\ SameSf(parents)
          /\ loc' = [NoLoc EXCEPT !.k = k, !.no_p = no_p, !.orig = parents,
                        !.parents = parents,
                        !.max_rmp = MaxRmp(rmp_matrix, parents),
                        !.same_sf = TRUE, !.branch = "same", !.cl = cl,
                        !.bl = Beta(parents)]
          /\ pop' = ReplaceSlots(pop, k, cl)
          /\ wlog' = wlog \cup WrittenSlots(k, cl)
    /\ k' = k + no_par
    /\ phase' = "group"
    /\ UNCHANGED <<pc, envs, config, no_terminal, rmp_matrix, learned_t, t,
                   calls, results, prim, env,
                   normal_beta, subpops>>

\* lines 54-102: all parents share one skill factor; the else of the for
\* loop continues with the next group
GroupSameTask ==
    /\ pc = "groups"
    /\ k < N
    /\ GroupSize(k) > 1
    /\ LET no_p == GroupSize(k)
           parents == ExtractParents(pop, k, no_p)
       IN /\ SameSf(parents)
          /\ loc' = [NoLoc EXCEPT !.k = k, !.no_p = no_p, !.orig = parents,
                        !.parents = parents,
                        !.max_rmp = MaxRmp(rmp_matrix, parents),
                        !.same_sf = TRUE, !.branch = "same",
                        !.cl = ChildrenOfFirst(parents, CrossoverMul(parents)),
                        !.bl = Beta(parents)]
    /\ k' = k + no_par
    /\ phase' = "group"
    /\ UNCHANGED <<pc, envs, config, no_terminal, pop, rmp_matrix, learned_t, t,
                   wlog, calls, results, prim, env,
                   normal_beta, subpops>>

\* lines 54-93, 105-113, 125-126: cross-task crossover
GroupCrossTask ==
    /\ pc = "groups"
    /\ k < N
    /\ GroupSize(k) > 1
    /\ LET no_p == GroupSize(k)
           parents == ExtractParents(pop, k, no_p)
           max_rmp == MaxRmp(rmp_matrix, parents)
       IN /\ ~SameSf(parents)
          /\ \E u \in Draws :
                /\ u < max_rmp
                /\ \E ch \in [1..no_p -> 1..no_p] :
                     LET cl == ChildrenOfChoice(parents, CrossoverMul(parents), ch)
                     IN /\ loc' = [NoLoc EXCEPT !.k = k, !.no_p = no_p,
                                      !.orig = parents, !.parents = parents,
                                      !.max_rmp = max_rmp, !.u = u,
                                      !.branch = "cross", !.cl = cl,
                                      !.bl = Beta(parents)]
                        /\ pop' = ReplaceSlots(pop, k, cl)
                        /\ wlog' = wlog \cup WrittenSlots(k, cl)
    /\ k' = k + no_par
    /\ phase' = "group"
    /\ UNCHANGED <<pc, envs, config, no_terminal, rmp_matrix, learned_t, t,
                   calls, results, prim, env,
                   normal_beta, subpops>>

\* lines 54-93, 114-126: crossover with relatives of parent 0
GroupFallback ==
    /\ pc = "groups"
    /\ k < N
    /\ GroupSize(k) > 1
    /\ LET no_p == GroupSize(k)
           orig == ExtractParents(pop, k, no_p)
           max_rmp == MaxRmp(rmp_matrix, orig)
       IN /\ ~SameSf(orig)
          /\ \E u \in Draws :
                /\ ~(u < max_rmp)
                /\ \E rel \in [1..no_p -> Relatives(pop, orig[1].sf)] :
                     LET parents == ReplaceRelatives(orig, rel)
                         cl == ChildrenOfFirst(parents, CrossoverMul(parents))
                     IN /\ loc' = [NoLoc EXCEPT !.k = k, !.no_p = no_p,
                                      !.orig = orig, !.parents = parents,
                                      !.max_rmp = max_rmp, !.u = u,
                                      !.branch = "fallback", !.cl = cl,
                                      !.bl = Beta(orig)]
                        /\ pop' = ReplaceSlots(pop, k, cl)
                        /\ wlog' = wlog \cup WrittenSlots(k, cl)
    /\ k' = k + no_par
    /\ phase' = "group"
    /\ UNCHANGED <<pc, envs, config, no_terminal, rmp_matrix, learned_t, t,
                   calls, results, prim, env,
                   normal_beta, subpops>>

\* ------------------------------------------------------ end of generation
\* line 129
Evaluate ==
    /\ pc = "groups"
    /\ k >= N
    /\ \E G \in SubsetsUpTo(1..Len(pop), MaxBetter) : pop' = EvaluatePop(pop, G)
    /\ loc' = NoLoc
    /\ pc' = "sort"
    /\ phase' = "evaluate"
    /\ UNCHANGED <<envs, config, no_terminal, rmp_matrix, learned_t, t, k, wlog,
                   calls, results, prim, env,
                   normal_beta, subpops>>

\* line 132
Sort ==
    /\ pc = "sort"
    /\ pop' = SortPop(pop)
    /\ pc' = "report"
    /\ phase' = "sort"
    /\ UNCHANGED <<envs, config, no_terminal, rmp_matrix, learned_t, t, k, loc,
                   wlog, calls, results, prim, env,
                   normal_beta, subpops>>

\* round(x, 1) of a value in hundredths: to the nearest tenth, ties to even
Round1(x) ==
    LET q == x \div 10
        r == x % 10
    IN IF r < 5 THEN 10 * q
       ELSE IF r > 5 THEN 10 * (q + 1)
       ELSE IF q % 2 = 0 THEN 10 * q ELSE 10 * (q + 1)

\* lines 135-136
OptimizationResults(gen, m) == [gen |-> gen, rmp |-> Round1(m[0][1])]

\* lines 135-142 with at least two tasks
Report ==
    /\ pc = "report"
    /\ K >= 2
    /\ results' = OptimizationResults(t, rmp_matrix)
    /\ calls' = IF config.callback THEN calls + 1 ELSE calls
    /\ t' = t + 1
    /\ pc' = "loop"
    /\ phase' = "report"
    /\ UNCHANGED <<envs, config, no_terminal, pop, rmp_matrix, learned_t, k, loc,
                   wlog, prim, env,
                   normal_beta, subpops>>

\* line 135 with a single task: rmp_matrix[0, 1] is out of bounds
ReportRaise ==
    /\ pc = "report"
    /\ K < 2
    /\ pc' = "raised"
    /\ phase' = "report"
    /\ UNCHANGED <<envs, config, no_terminal, pop, rmp_matrix, learned_t, t, k,
                   loc, wlog, calls, results, prim, env,
                   normal_beta, subpops>>

\* line 44: the iterator is exhausted
Finish ==
    /\ pc = "loop"
    /\ t >= T
    /\ pc' = "done"
    /\ phase' = "done"
    /\ UNCHANGED <<envs, config, no_terminal, pop, rmp_matrix, learned_t, t, k,
                   loc, wlog, calls, results, prim, env,
                   normal_beta, subpops>>

Next ==
    \/ Setup
    \/ EvaluateInit
    \/ SortInit
    \/ Permute
    \/ LearnRmp
    \/ GroupRaise
    \/ GroupSameTask
    \/ GroupCrossTask
    \/ GroupFallback
    \/ Evaluate
    \/ Sort
    \/ Report
    \/ ReportRaise
    \/ Finish

Spec == Init /\ [][Next]_vars

SpecSetup == InitSetup /\ [][Next]_vars
SpecBeta == InitBeta /\ [][Next]_vars

TypeOK == pc \in {"setup", "evaluate_init", "sort_init", "loop", "learn_rmp",
                  "groups", "sort", "report", "raised", "done"}

\* ------------------------------------------------------------ primitives
\* Floats of function_set.py.  kind "fin": the number n; "real": a finite
\* number the model does not compute; "nan", "pinf", "ninf"; "raise": the
\* numpy operation signalled a floating point error (np.seterr(all='raise')).
MaxMag == 1000

Fin(n) == [k |-> "fin", n |-> n]
Real == [k |-> "real", n |-> 0]
NaN == [k |-> "nan", n |-> 0]
PInf == [k |-> "pinf", n |-> 0]
NInf == [k |-> "ninf", n |-> 0]
Raised == [k |-> "raise", n |-> 0]

PrimInputs ==
    {NaN, PInf, NInf} \cup {Fin(n) : n \in {-MaxMag, -1, 0, 1, 87, 88, 89, 710, MaxMag}}

Abs(n) == IF n < 0 THEN -n ELSE n
IsInf(a) == a.k \in {"pinf", "ninf"}
Sign(a) ==
    IF a.k = "pinf" THEN 1
    ELSE IF a.k = "ninf" THEN -1
    ELSE IF a.n > 0 THEN 1 ELSE IF a.n < 0 THEN -1 ELSE 0
InfOf(sg) == IF sg > 0 THEN PInf ELSE NInf
Neg(a) ==
    IF a.k = "pinf" THEN NInf
    ELSE IF a.k = "ninf" THEN PInf
    ELSE IF a.k = "fin" THEN Fin(-a.n) ELSE a
\* a finite result, or the overflow error beyond the largest float
Rounded(n) == IF n > MaxMag \/ n < -MaxMag THEN Raised ELSE Fin(n)

\* the numpy operations on scalars
NpAdd(a, b) ==
    IF a.k = "nan" \/ b.k = "nan" THEN NaN
    ELSE IF IsInf(a) /\ IsInf(b) THEN (IF a.k = b.k THEN a ELSE Raised)
    ELSE IF IsInf(a) THEN a
    ELSE IF IsInf(b) THEN b
    ELSE Rounded(a.n + b.n)

NpSubtract(a, b) == NpAdd(a, Neg(b))

NpMultiply(a, b) ==
    IF a.k = "nan" \/ b.k = "nan" THEN NaN
    ELSE IF IsInf(a) \/ IsInf(b)
         THEN (IF Sign(a) * Sign(b) = 0 THEN Raised ELSE InfOf(Sign(a) * Sign(b)))
    ELSE Rounded(a.n * b.n)

NpDivide(a, b) ==
    IF a.k = "nan" \/ b.k = "nan" THEN NaN
    ELSE IF IsInf(a) /\ IsInf(b) THEN Raised
    ELSE IF IsInf(b) THEN Fin(0)
    ELSE IF b.n = 0 THEN (IF IsInf(a) THEN a ELSE Raised)
    ELSE IF IsInf(a) THEN InfOf(Sign(a) * Sign(b))
    ELSE IF Abs(a.n) % Abs(b.n) = 0
         THEN Fin(Sign(a) * Sign(b) * (Abs(a.n) \div Abs(b.n)))
    ELSE Real

NpLog(a) ==
    IF a.k = "nan" THEN NaN
    ELSE IF a.k = "pinf" THEN PInf
    ELSE IF a.k = "ninf" THEN Raised
    ELSE IF a.n <= 0 THEN Raised
    ELSE IF a.n = 1 THEN Fin(0) ELSE Real

NpSin(a) ==
    IF a.k = "nan" THEN NaN
    ELSE IF IsInf(a) THEN Raised
    ELSE IF a.n = 0 THEN Fin(0) ELSE Real

NpCos(a) ==
    IF a.k = "nan" THEN NaN
    ELSE IF IsInf(a) THEN Raised
    ELSE IF a.n = 0 THEN Fin(1) ELSE Real

NpExp(a) ==
    IF a.k = "nan" THEN NaN
    ELSE IF a.k = "pinf" THEN PInf
    ELSE IF a.k = "ninf" THEN Fin(0)
    ELSE IF a.n > 709 \/ a.n < -745 THEN Raised
    ELSE IF a.n = 0 THEN Fin(1) ELSE Real

\* the comparisons of the guards; a comparison with nan is false
IsZero(a) == a.k = "fin" /\ a.n = 0
AtLeast(a, n) == a.k = "pinf" \/ (a.k = "fin" /\ a.n >= n)

\* try: c = <operation>  except: return np.nan
Guarded(c) == IF c.k = "raise" THEN NaN ELSE c

\* lines 5-11
add(a, b) == Guarded(NpAdd(a, b))

\* lines 14-20
subtract(a, b) == Guarded(NpSubtract(a, b))

\* lines 23-29
multiply(a, b) == Guarded(NpMultiply(a, b))

\* variant of divide: a zero divisor yields 1 (protected division)
DivideProtected(a, b) == IF IsZero(b) THEN Fin(1) ELSE Guarded(NpDivide(a, b))

\* lines 32-40
divide(a, b) == IF IsZero(b) THEN NaN ELSE Guarded(NpDivide(a, b))

\* lines 43-51
log(a) == IF IsZero(a) THEN NaN ELSE Guarded(NpLog(a))

\* lines 54-60
take_sin(a) == Guarded(NpSin(a))

\* lines 63-69
take_cos(a) == Guarded(NpCos(a))

\* variant of exp: without the guard on the exponent
ExpUnguarded(a) == Guarded(NpExp(a))

\* lines 72-80
exp(a) == IF AtLeast(a, 88) THEN NaN ELSE Guarded(NpExp(a))

Evaluated(op, a, b, r) == prim' = [op |-> op, a |-> a, b |-> b, r |-> r]

driver == <<pc, phase, envs, config, no_terminal, pop, rmp_matrix, learned_t,
            t, k, loc, wlog, calls, results, normal_beta, subpops>>

EvalAdd ==
    /\ \E a \in PrimInputs, b \in PrimInputs : Evaluated("add", a, b, add(a, b))
    /\ UNCHANGED <<driver, env>>

EvalSubtract ==
    /\ \E a \in PrimInputs, b \in PrimInputs :
          Evaluated("subtract", a, b, subtract(a, b))
    /\ UNCHANGED <<driver, env>>

EvalMultiply ==
    /\ \E a \in PrimInputs, b \in PrimInputs :
          Evaluated("multiply", a, b, multiply(a, b))
    /\ UNCHANGED <<driver, env>>

EvalDivide ==
    /\ \E a \in PrimInputs, b \in PrimInputs : Evaluated("divide", a, b, divide(a, b))
    /\ UNCHANGED <<driver, env>>

EvalLog ==
    /\ \E a \in PrimInputs : Evaluated("log", a, a, log(a))
    /\ UNCHANGED <<driver, env>>

EvalSin ==
    /\ \E a \in PrimInputs : Evaluated("sin", a, a, take_sin(a))
    /\ UNCHANGED <<driver, env>>

EvalCos ==
    /\ \E a \in PrimInputs : Evaluated("cos", a, a, take_cos(a))
    /\ UNCHANGED <<driver, env>>

EvalExp ==
    /\ \E a \in PrimInputs : Evaluated("exp", a, a, exp(a))
    /\ UNCHANGED <<driver, env>>

\* np.abs, used by the 'ln|x|' entry (line 91)
NpAbs(a) ==
    CASE a.k = "fin"  -> Fin(Abs(a.n))
      [] a.k = "real" -> Real
      [] a.k = "nan"  -> NaN
      [] OTHER        -> PInf

\* lines 83-92: the names of the catalog, their arities and their lambdas
FunctionNames == {"+", "-", "*", "/", "sin", "cos", "e^x", "ln|x|"}

Arity(name) == IF name \in {"+", "-", "*", "/"} THEN 2 ELSE 1

FUNCTION_SET(name, a, b) ==
    CASE name = "+"     -> add(a, b)
      [] name = "-"     -> subtract(a, b)
      [] name = "*"     -> multiply(a, b)
      [] name = "/"     -> divide(a, b)
      [] name = "sin"   -> take_sin(a)
      [] name = "cos"   -> take_cos(a)
      [] name = "e^x"   -> exp(a)
      [] name = "ln|x|" -> log(NpAbs(a))

\* one call of an entry's 'func'; an entry of arity 1 takes one argument
EvalFunctionSet ==
    /\ \E name \in FunctionNames, a \in PrimInputs, b \in PrimInputs :
          /\ Arity(name) = 1 => b = a
          /\ Evaluated(name, a, b, FUNCTION_SET(name, a, b))
    /\ UNCHANGED <<driver, env>>

NextPrim ==
    \/ EvalFunctionSet
    \/ EvalAdd
    \/ EvalSubtract
    \/ EvalMultiply
    \/ EvalDivide
    \/ EvalLog
    \/ EvalSin
    \/ EvalCos
    \/ EvalExp

\* the primitives evaluated on their own, outside a run of the driver
InitPrim ==
    /\ InitWith({<<PoleObsLen>>},
                {[pop_size |-> 1, num_iter |-> 0, num_par |-> 1, callback |-> TRUE]})
    /\ env = NewEnv("DoublePole710")
    /\ normal_beta = TRUE

SpecPrim == InitPrim /\ [][NextPrim]_vars

\* ---------------------------------------------------------- environments
\* DoublePole710 (doublepole_710.py) and DoublePole710v1
\* (doublepole_710_v1.py).  The integration of the equations of motion is
\* left open: a step may leave the new state inside or outside the
\* thresholds.

\* 'done = bool(...)': true iff the new cart position or a new pole angle is
\* outside its threshold
Done(inside) == ~inside

\* DoublePole710.step, lines 200-215: the reward
Reward710(done, sbd) ==
    IF ~done THEN One
    ELSE IF sbd = None THEN One
    ELSE Zero

\* DoublePole710v1.step, lines 211-217: f1 = T / 1000, and f2 = 0.75 / vp
\* from the hundredth step on; 0.1 * f1 is T ten-thousandths
Shaped(steps) == Reward(steps, steps >= 100)

\* DoublePole710v1.step, lines 227-242: the reward
RewardV1(steps, done, sbd) ==
    IF ~done THEN Shaped(steps)
    ELSE IF sbd = None THEN One
    ELSE Zero

StepReward(cls, steps, done, sbd) ==
    IF cls = "DoublePole710" THEN Reward710(done, sbd)
    ELSE RewardV1(steps, done, sbd)

\* both classes: what step() leaves in self.steps_beyond_done
StepsBeyondDone(done, sbd) ==
    IF ~done THEN sbd
    ELSE IF sbd = None THEN 0
    ELSE sbd + 1

\* step(action) after a reset()
EnvStep ==
    /\ env.state # "none"
    /\ env.T < MaxSteps
    /\ \E inside \in BOOLEAN :
          LET done == Done(inside)
              T1 == env.T + 1
          IN env' = [env EXCEPT
                        !.T = T1,
                        !.state = IF inside THEN "in" ELSE "out",
                        !.steps_beyond_done = StepsBeyondDone(done, @),
                        !.was_done = @ \/ done,
                        !.last = [op |-> "step",
                                  reward |-> StepReward(env.cls, T1, done,
                                                        env.steps_beyond_done),
                                  done |-> done,
                                  after_done |-> env.was_done]]
    /\ UNCHANGED <<driver, prim>>

\* step(action) on an object that was never reset: the counter is advanced,
\* then unpacking self.state = None raises
EnvStepUnset ==
    /\ env.state = "none"
    /\ env.T < MaxSteps
    /\ env' = [env EXCEPT !.T = @ + 1, !.last = [NoCall EXCEPT !.op = "raise"]]
    /\ UNCHANGED <<driver, prim>>

\* reset(): a state drawn from [-0.05, 0.05], inside every threshold
EnvReset ==
    /\ env' = [env EXCEPT
                  !.state = "in",
                  !.T = 0,
                  !.steps_beyond_done = None,
                  !.was_done = FALSE,
                  !.last = [NoCall EXCEPT !.op = "reset"]]
    /\ UNCHANGED <<driver, prim>>

NextEnv ==
    \/ EnvStep
    \/ EnvStepUnset
    \/ EnvReset

\* an environment object used on its own, outside a run of the driver
InitEnv ==
    /\ InitWith({<<PoleObsLen>>},
                {[pop_size |-> 1, num_iter |-> 0, num_par |-> 1, callback |-> TRUE]})
    /\ env \in {NewEnv(c) : c \in EnvClasses}
    /\ normal_beta = TRUE

SpecEnv == InitEnv /\ [][NextEnv]_vars

\* ---------------------------------------------------------------- claims
\* a group has been processed and its locals are still in place
Processed == loc.branch # "none"
CrossedOver == loc.branch \in {"same", "cross", "fallback"}
OneTask(par) == \A i \in 1..Len(par) : \A j \in 1..Len(par) : par[i].sf = par[j].sf
TaskIds(par) == {par[i].sf : i \in 1..Len(par)}
\* pop[N+k+i] holds child i of the processed group, for every i
Stored == \A i \in 1..loc.no_p : pop[N + loc.k + i] = loc.cl[i]
\* some rmp of the pairs {parent 0, parent i}, i > 0, exceeds the draw
DrawClears ==
    \E i \in 2..loc.no_p : loc.u < rmp_matrix[loc.orig[1].sf][loc.orig[i].sf]

\* C1: after a group is processed on any of the three crossover branches,
\* every child is mutated and pop[N+k+i] holds the group's child i.
C1_ChildrenStored ==
    CrossedOver =>
        /\ Len(loc.cl) = loc.no_p
        /\ \A i \in 1..loc.no_p : loc.cl[i].mut
        /\ Stored

\* C2: a partial last group (no_p < num_par, no_p = 1 included) is processed
\* without an exception and exactly no_p children are produced and stored.
C2_PartialGroupHandled ==
    (Processed /\ loc.no_p < no_par) =>
        /\ loc.branch # "raise"
        /\ Len(loc.cl) = loc.no_p
        /\ Stored

\* C3: a group with mixed task ids takes the cross-task branch exactly when
\* the draw is less than the maximum rmp of the pairs {parent 0, parent i};
\* then every child's task id is one of the parents' task ids; with an
\* all-ones matrix the cross-task branch is always taken.
C3_CrossTaskBranch ==
    (Processed /\ ~OneTask(loc.orig)) =>
        /\ loc.branch \in {"cross", "fallback"}
        /\ (loc.branch = "cross") <=> DrawClears
        /\ loc.branch = "cross" =>
              \A i \in 1..loc.no_p : loc.cl[i].sf \in TaskIds(loc.orig)
        /\ (\A i \in 0..K-1 : \A j \in 0..K-1 : rmp_matrix[i][j] = 100) =>
              loc.branch = "cross"

W_C3 ==
    /\ loc.branch = "cross"
    /\ loc.no_p = 3
    /\ loc.u = 50
    /\ \E i \in 1..loc.no_p : loc.cl[i].sf # loc.orig[1].sf

\* C4: a group takes the same-task branch if and only if all its parents
\* carry one task id, and then every child has that task id.
C4_SameTaskBranch ==
    Processed =>
        /\ (loc.branch = "same") <=> OneTask(loc.orig)
        /\ loc.branch = "same" =>
              \A i \in 1..loc.no_p : loc.cl[i].sf = loc.orig[1].sf

\* C5: on the fallback branch parent 0 is kept, every later parent is a
\* relative with parent 0's task id, every child is mutated and carries
\* parent 0's task id, and the slots pop[k..k+no_p-1] still hold the
\* original parents.
C5_Fallback ==
    loc.branch = "fallback" =>
        /\ ~OneTask(loc.orig)
        /\ ~DrawClears
        /\ Len(loc.parents) = loc.no_p
        /\ loc.parents[1] = loc.orig[1]
        /\ \A i \in 2..loc.no_p :
              /\ loc.parents[i].sf = loc.orig[1].sf
              /\ \E j \in 1..N : pop[j] = loc.parents[i]
        /\ Len(loc.cl) = loc.no_p
        /\ \A i \in 1..loc.no_p : loc.cl[i].mut /\ loc.cl[i].sf = loc.orig[1].sf
        /\ \A i \in 1..loc.no_p : pop[loc.k + i] = loc.orig[i]

W_C5 ==
    /\ loc.branch = "fallback"
    /\ loc.no_p = 3
    /\ \E i \in 2..loc.no_p : loc.parents[i] # loc.orig[i]

\* C6: the phases follow each other in the order create, evaluate, sort,
\* then per generation permute, learn_rmp, the groups in increasing index
\* order, evaluate, sort, report.
PhaseStep ==
    /\ phase' = "create" => phase = "none"
    /\ phase' = "evaluate" => phase = "create" \/ (phase = "group" /\ k >= N)
    /\ phase' = "sort" => phase = "evaluate"
    /\ phase' = "permute" =>
          \/ phase = "sort" /\ t = 0 /\ learned_t = -1
          \/ phase = "report" /\ t > 0
    /\ phase' = "learn_rmp" => phase = "permute"
    /\ phase' = "group" =>
          \/ phase = "learn_rmp" /\ loc'.k = 0
          \/ phase = "group" /\ loc'.k = loc.k + no_par /\ loc'.k < N
    /\ phase' = "report" => phase = "sort" /\ learned_t = t
    /\ phase' = "done" => phase \in {"sort", "report"} /\ t = T

C6_PhaseOrder == [][PhaseStep]_vars

W_C6 == phase = "group" /\ t = 1 /\ loc.k = 0

\* C7: the run ends after exactly T generations with no early exit, and the
\* callback is invoked once per generation, in order, with that generation's
\* index and an rmp value of the matrix learned in that generation.
C7_RunsAllGenerations ==
    /\ pc # "raised"
    /\ calls = t
    /\ (phase = "report" /\ pc = "loop") =>
          /\ results.gen = t - 1
          /\ learned_t = t - 1
          /\ results.rmp = Round1(rmp_matrix[0][1])
    /\ pc = "done" => t = T

\* C8 (as stated): the driver does not get as far as the first permute when
\* num_par does not fit N or the tasks report different terminal counts.
Consistent ==
    /\ no_par <= N
    /\ N % no_par = 0
    /\ \A i \in 1..K : \A j \in 1..K : envs[i] = envs[j]

C8_RefusesInconsistent == phase = "permute" => Consistent

\* C8 (amended): setup never fails; it adopts the largest of the tasks'
\* terminal counts for all tasks and creates 2N chromosomes whatever num_par
\* is; a run fails in group processing or in the report at the earliest.
C8_SetupAdoptsMax ==
    /\ pc # "setup" =>
          /\ \A i \in 1..K : no_terminal >= envs[i]
          /\ \E i \in 1..K : no_terminal = envs[i]
          /\ Len(pop) = 2 * N
    /\ pc = "raised" => phase \in {"group", "report"}

W_C8 == phase = "permute" /\ K = 2 /\ envs[1] < envs[2]

\* C9: in a generation's crossover phase the group starting at k writes only
\* slots of [N+k, N+k+no_p), inside [N, 2N); two groups write disjoint
\* slots; no slot of [0, N) changes; the population keeps 2N slots.
SliceOf(kk) == {j \in N + kk .. N + kk + no_par - 1 : j < 2 * N}

WritesInSlice ==
    (pc = "groups" /\ k < N) =>
        /\ Len(pop') = 2 * N
        /\ \A j \in 1..Len(pop) : pop'[j] # pop[j] => (j - 1) \in SliceOf(k)
        /\ \A j \in 1..N : pop'[j] = pop[j]

SlicesDisjoint ==
    /\ pop # <<>> => Len(pop) = 2 * N
    /\ \A w \in wlog : w.slot \in SliceOf(w.k) /\ w.slot >= N
    /\ \A w \in wlog : \A x \in wlog : w.slot = x.slot => w.k = x.k

C9_OffspringSlices == [](SlicesDisjoint) /\ [][WritesInSlice]_vars

W_C9 == \E w \in wlog : \E x \in wlog : w.k # x.k

\* C10: divide by 0, log of 0 and exp of 88 or more return NaN, and no
\* primitive lets an exception out.
C10_NoRaise ==
    prim.op # "none" =>
        /\ prim.r.k # "raise"
        /\ (prim.op = "divide" /\ IsZero(prim.b)) => prim.r = NaN
        /\ (prim.op = "log" /\ IsZero(prim.a)) => prim.r = NaN
        /\ (prim.op = "exp" /\ AtLeast(prim.a, 88)) => prim.r = NaN

W_C10 == prim.op = "exp" /\ prim.a = Fin(88) /\ prim.r = NaN

\* C11: NaN propagation over the catalog.  Whenever an entry of FUNCTION_SET
\* is called with NaN as one of its arguments the result is NaN, whatever
\* the other argument is; and feeding a NaN result of one call into the
\* next call of any entry gives NaN again.
NaNArgument == prim.a = NaN \/ prim.b = NaN

NaNIn == (prim.op \in FunctionNames /\ NaNArgument) => prim.r = NaN

NaNComposed ==
    (/\ prim.op \in FunctionNames
     /\ prim.r = NaN
     /\ prim'.op \in FunctionNames
     /\ (prim'.a = prim.r \/ prim'.b = prim.r)) => prim'.r = NaN

C11_NaNPropagates == [](NaNIn) /\ [][NaNComposed]_vars

W_C11 == prim.op = "/" /\ prim.a = NaN /\ prim.b = Fin(0) /\ prim.r = NaN

\* C12: task-id validity.  From setup on, at every point of the run, every
\* chromosome of population.pop, the parents pop[0:N] and the offspring
\* slots pop[N:2N] alike, has a task id in [0, K), and so has every child
\* of a group that went through one of the crossover branches.
ValidTask(c) == c.sf \in 0..(K - 1)

C12_TaskIdsValid ==
    /\ \A j \in 1..Len(pop) : ValidTask(pop[j])
    /\ CrossedOver => \A i \in 1..Len(loc.cl) : ValidTask(loc.cl[i])

\* a child of an earlier generation is among the parents pop[0:N] while a
\* later group has written its children
W_C12 ==
    /\ loc.branch \in {"cross", "fallback"}
    /\ Stored
    /\ t >= 1
    /\ \E j \in 1..N : pop[j].mut /\ ValidTask(pop[j])

\* C13: rewards of step().  In both classes every step() since the last
\* reset(), up to and including the first one that returns done = True,
\* returns reward 1; a later step() that finds done = True again returns
\* reward 0 and adds exactly 1 to steps_beyond_done; reset() sets
\* steps_beyond_done to None.
RewardLaw ==
    /\ (env.last.op = "step" /\ ~env.last.after_done) => env.last.reward = One
    /\ (env.last.op = "step" /\ env.last.after_done /\ env.last.done) =>
           env.last.reward = Zero
    /\ env.last.op = "reset" => env.steps_beyond_done = None

BeyondLaw ==
    (/\ env'.last.op = "step"
     /\ env'.T = env.T + 1
     /\ env.was_done
     /\ env'.last.done) => env'.steps_beyond_done = env.steps_beyond_done + 1

C13_StepRewards == [](RewardLaw) /\ [][BeyondLaw]_vars

\* C14: episodes are bounded.  In both classes a step() that is more than
\* 200 calls after the last reset() returns done = True.
C14_EpisodesBounded ==
    (env.last.op = "step" /\ env.T > EpisodeLimit) => env.last.done

\* C15: the same-skill-factor branch continues.  When the group at k goes
\* through the same-skill-factor branch, every one of its no_p children is
\* mutated and takes parent 0's task id, and then control passes to the
\* next group: population.pop is left as it was, nothing is written to the
\* offspring slots, and k advances by no_par.
SameTaskStep == pc = "groups" /\ k < N /\ loc'.k = k /\ loc'.branch = "same"

ContinueLaw ==
    SameTaskStep =>
        /\ Len(loc'.cl) = loc'.no_p
        /\ \A i \in 1..loc'.no_p :
              loc'.cl[i].mut /\ loc'.cl[i].sf = loc'.parents[1].sf
        /\ pop' = pop
        /\ wlog' = wlog
        /\ pc' = "groups"
        /\ k' = k + no_par

C15_SameTaskContinues == [][ContinueLaw]_vars

\* a same-skill-factor group was processed and none of its children is in
\* its offspring slot
W_C15 ==
    /\ loc.branch = "same"
    /\ loc.no_p >= 2
    /\ k = loc.k + no_par
    /\ \A i \in 1..loc.no_p : loc.cl[i].mut /\ pop[N + loc.k + i] # loc.cl[i]
    /\ \A w \in wlog : w.k # loc.k

\* C16: in likelihood-beta mode, on each of the three crossover branches,
\* row i of the beta matrix handed to the crossover operator was computed
\* from the genes and from the subpopulation of the chromosome handed to it
\* as parent i, and at every position where that subpopulation's standard
\* deviation is 0 the row holds exactly 1.
C16_BetaRowsMatch ==
    (~normal_beta /\ CrossedOver) =>
        \A i \in 1..loc.no_p :
            /\ loc.bl[i].src = loc.parents[i]
            /\ loc.bl[i].sub = loc.parents[i].sf
            /\ subpops[loc.bl[i].sub] \subseteq loc.bl[i].one

====
